---- MODULE Spec2Model ----
(***************************************************************************)
(* babel-plugin-import-to-await-require: a model of the plugin's two       *)
(* visitors (Program.exit and CallExpression.exit) and of the helpers      *)
(* they call (isMatchLib, getAlias, getPath, specifiersToProperties).      *)
(*                                                                         *)
(* A JavaScript string is a sequence of symbols.  A symbol is a character  *)
(* ("/", ".", "-", "d") or a word that no other symbol of the alphabet     *)
(* spells ("react", "node_modules", "umi", "js").  startsWith, endsWith,   *)
(* replace, RegExp test and extname are computed on these sequences the    *)
(* way the JavaScript functions compute them on characters.  Identifier    *)
(* names are only ever compared, so they are atoms.                        *)
(***************************************************************************)
EXTENDS Integers, Sequences, FiniteSets, TLC

VARIABLES opts, program, callNodes, ci, body, variableDeclarations, index, pc,
          log, fnArgs, fnRet

vars == <<opts, program, callNodes, ci, body, variableDeclarations, index, pc,
          log, fnArgs, fnRet>>

passVars == <<opts, program, callNodes, ci, body, variableDeclarations, index,
              pc, log>>

fnVars == <<fnArgs, fnRet>>

-----------------------------------------------------------------------------
(* Bounds *)

MaxStmts == 3

MaxLibs == 2

-----------------------------------------------------------------------------
(* JavaScript values and string functions *)

NULL == [type |-> "null"]

startsWith(s, p) == Len(p) <= Len(s) /\ SubSeq(s, 1, Len(p)) = p

endsWith(s, p) == Len(p) <= Len(s) /\ SubSeq(s, Len(s) - Len(p) + 1, Len(s)) = p

\* positions (from 1) at which p occurs in s
Occurrences(s, p) ==
    {i \in 1..(Len(s) - Len(p) + 1) : SubSeq(s, i, i + Len(p) - 1) = p}

\* RegExp.prototype.test for a pattern that is a literal, optionally anchored
\* at the start
test(re, s) ==
    IF re.anchored THEN startsWith(s, re.source)
    ELSE Occurrences(s, re.source) # {}

Min(S) == CHOOSE i \in S : \A j \in S : i <= j

Max(S) == CHOOSE i \in S : \A j \in S : i >= j

\* String.prototype.replace with a string pattern: the first occurrence only
replace(s, p, r) ==
    IF Occurrences(s, p) = {} THEN s
    ELSE LET i == Min(Occurrences(s, p))
         IN  SubSeq(s, 1, i - 1) \o r \o SubSeq(s, i + Len(p), Len(s))

charAt0(s) == IF Len(s) = 0 THEN <<>> ELSE <<s[1]>>

\* path.isAbsolute (posix)
isAbsolute(p) == Len(p) > 0 /\ p[1] = "/"

\* path.extname (posix): trailing separators are dropped, the last segment is
\* cut at its last dot, and a segment that only starts with its last dot
\* (".js") or is ".." has no extension
extname(p) ==
    LET nonSep == {i \in 1..Len(p) : p[i] # "/"}
    IN  IF nonSep = {} THEN <<>>
        ELSE LET end   == Max(nonSep)
                 seps  == {i \in 1..end : p[i] = "/"}
                 start == IF seps = {} THEN 1 ELSE Max(seps) + 1
                 dots  == {i \in start..end : p[i] = "."}
             IN  IF dots = {} THEN <<>>
                 ELSE LET dot == Max(dots)
                      IN  IF dot = start THEN <<>>
                          ELSE IF dot = end /\ dot = start + 1 /\ p[start] = "."
                               THEN <<>>
                          ELSE SubSeq(p, dot, end)

-----------------------------------------------------------------------------
(* Path matching *)

RE_NODE_MODULES == [type |-> "RegExp", source |-> <<"node_modules">>, anchored |-> FALSE]

RE_UMI_LOCAL_DEV ==
    [type |-> "RegExp", source |-> <<"umi", "/", "packages", "/">>, anchored |-> FALSE]

\* an object with string keys is the sequence of its <<key, value>> entries in
\* Object.keys order
Keys(obj) == [i \in 1..Len(obj) |-> obj[i][1]]

Get(obj, k) ==
    LET hits == {i \in 1..Len(obj) : obj[i][1] = k}
    IN  IF hits = {} THEN NULL ELSE obj[Min(hits)][2]

isJSFile(path) ==
    extname(path) \in {<<".", "js">>, <<".", "jsx">>, <<".", "ts">>, <<".", "tsx">>}

addLastSlash(path) == IF endsWith(path, <<"/">>) THEN path ELSE path \o <<"/">>

getAlias(path, webpackAlias) ==
    LET hits == {i \in 1..Len(webpackAlias) :
                   LET key == webpackAlias[i][1]
                       p   == IF isJSFile(webpackAlias[i][2]) THEN key
                              ELSE addLastSlash(key)
                   IN  startsWith(path, p)}
    IN  IF hits = {} THEN NULL ELSE webpackAlias[Min(hits)][2]

Return(v) == [threw |-> FALSE, value |-> v]

Throw == [threw |-> TRUE, value |-> FALSE]

\* Array.prototype.some over libs.concat(Object.keys(alias)): the first entry
\* that matches or throws ends the scan
RECURSIVE some(_, _)
some(entries, path) ==
    IF entries = <<>> THEN Return(FALSE)
    ELSE LET lib == Head(entries)
         IN  IF lib.type = "string"
             THEN IF lib.value = path THEN Return(TRUE)
                  ELSE some(Tail(entries), path)
             ELSE IF lib.type = "RegExp"
             THEN IF test(lib, path) THEN Return(TRUE)
                  ELSE some(Tail(entries), path)
             ELSE Throw

string(v) == [type |-> "string", value |-> v]

truthy(v) == v # NULL /\ v # <<>>

\* wildcard mode without the relative-path test
isMatchLib_noRelative(path, libs, matchAll, alias, webpackAlias) ==
    IF matchAll
    THEN IF path = <<"umi">> \/ path = <<"d", "umi">> THEN Return(FALSE)
         ELSE IF isAbsolute(path)
         THEN Return(test(RE_NODE_MODULES, path) \/ test(RE_UMI_LOCAL_DEV, path))
         ELSE LET aliasPath == getAlias(path, webpackAlias)
              IN  IF truthy(aliasPath)
                  THEN Return(test(RE_NODE_MODULES, aliasPath)
                              \/ test(RE_UMI_LOCAL_DEV, aliasPath))
                  ELSE Return(TRUE)
    ELSE some(libs \o [i \in 1..Len(alias) |-> string(Keys(alias)[i])], path)

isMatchLib(path, libs, matchAll, alias, webpackAlias) ==
    IF matchAll
    THEN IF path = <<"umi">> \/ path = <<"d", "umi">> THEN Return(FALSE)
         ELSE IF isAbsolute(path)
         THEN Return(test(RE_NODE_MODULES, path) \/ test(RE_UMI_LOCAL_DEV, path))
         ELSE IF charAt0(path) = <<".">> THEN Return(FALSE)
         ELSE LET aliasPath == getAlias(path, webpackAlias)
              IN  IF truthy(aliasPath)
                  THEN Return(test(RE_NODE_MODULES, aliasPath)
                              \/ test(RE_UMI_LOCAL_DEV, aliasPath))
                  ELSE Return(TRUE)
    ELSE some(libs \o [i \in 1..Len(alias) |-> string(Keys(alias)[i])], path)

getPath(path, alias) ==
    LET hits == {i \in 1..Len(alias) : startsWith(path, alias[i][1])}
    IN  IF hits = {} THEN path
        ELSE replace(path, alias[Min(hits)][1], alias[Min(hits)][2])

-----------------------------------------------------------------------------
(* Syntax tree nodes, named after the @babel/types builders *)

identifier(name) == [type |-> "Identifier", name |-> name]

stringLiteral(value) == [type |-> "StringLiteral", value |-> value]

objectProperty(key, value) == [type |-> "ObjectProperty", key |-> key, value |-> value]

objectPattern(properties) == [type |-> "ObjectPattern", properties |-> properties]

import == [type |-> "Import"]

callExpression(callee, arguments) ==
    [type |-> "CallExpression", callee |-> callee, arguments |-> arguments]

awaitExpression(argument) == [type |-> "AwaitExpression", argument |-> argument]

variableDeclarator(id, init) == [type |-> "VariableDeclarator", id |-> id, init |-> init]

variableDeclaration(kind, declarations) ==
    [type |-> "VariableDeclaration", kind |-> kind, declarations |-> declarations]

importDeclaration(specifiers, source) ==
    [type |-> "ImportDeclaration", specifiers |-> specifiers, source |-> source]

exportAllDeclaration(source) == [type |-> "ExportAllDeclaration", source |-> source]

\* t.exportNamedDeclaration(declaration, specifiers, source); the builder's
\* defaults are declaration = null, specifiers = [], source = null
exportNamedDeclaration(declaration, specifiers, source) ==
    [type |-> "ExportNamedDeclaration", declaration |-> declaration,
     specifiers |-> specifiers, source |-> source]

importDefaultSpecifier(local) ==
    [type |-> "ImportDefaultSpecifier", local |-> identifier(local)]

importNamespaceSpecifier(local) ==
    [type |-> "ImportNamespaceSpecifier", local |-> identifier(local)]

importSpecifier(local, imported) ==
    [type |-> "ImportSpecifier", local |-> identifier(local),
     imported |-> identifier(imported)]

exportSpecifier(local, exported) ==
    [type |-> "ExportSpecifier", local |-> identifier(local),
     exported |-> identifier(exported)]

exportDefaultSpecifier(exported) ==
    [type |-> "ExportDefaultSpecifier", exported |-> identifier(exported)]

expressionStatement == [type |-> "ExpressionStatement"]

\* A top-level statement carries two history fields that stand for the
\* node's identity: origin, the position in the input body of the statement
\* it is, replaces or was generated for, and generated, whether it was
\* created for the variableDeclarations list.
Tag(node, origin, generated) ==
    [f \in DOMAIN node \cup {"origin", "generated"} |->
        IF f = "origin" THEN origin
        ELSE IF f = "generated" THEN generated
        ELSE node[f]]

\* the projection with key and value of a named import exchanged
RECURSIVE reduce_swapped(_, _)
reduce_swapped(memo, specifiers) ==
    IF specifiers = <<>> THEN memo
    ELSE LET s == Head(specifiers)
             next ==
               IF s.type = "ImportDefaultSpecifier"
               THEN [memo EXCEPT !.properties =
                       Append(@, objectProperty(identifier("default"), s.local))]
               ELSE IF s.type = "ExportDefaultSpecifier"
               THEN [memo EXCEPT !.properties =
                       Append(@, objectProperty(identifier("default"), s.exported))]
               ELSE IF s.type = "ExportSpecifier"
               THEN [memo EXCEPT !.properties =
                       Append(@, objectProperty(s.local, s.exported))]
               ELSE IF s.type = "ImportNamespaceSpecifier"
               THEN [memo EXCEPT !.namespaceIdentifier = s.local]
               ELSE [memo EXCEPT !.properties =
                       Append(@, objectProperty(s.local, s.imported))]
         IN  reduce_swapped(next, Tail(specifiers))

specifiersToProperties_swapped(specifiers) ==
    reduce_swapped([properties |-> <<>>, namespaceIdentifier |-> NULL], specifiers)

RECURSIVE reduce(_, _)
reduce(memo, specifiers) ==
    IF specifiers = <<>> THEN memo
    ELSE LET s == Head(specifiers)
             next ==
               IF s.type = "ImportDefaultSpecifier"
               THEN [memo EXCEPT !.properties =
                       Append(@, objectProperty(identifier("default"), s.local))]
               ELSE IF s.type = "ExportDefaultSpecifier"
               THEN [memo EXCEPT !.properties =
                       Append(@, objectProperty(identifier("default"), s.exported))]
               ELSE IF s.type = "ExportSpecifier"
               THEN [memo EXCEPT !.properties =
                       Append(@, objectProperty(s.local, s.exported))]
               ELSE IF s.type = "ImportNamespaceSpecifier"
               THEN [memo EXCEPT !.namespaceIdentifier = s.local]
               ELSE [memo EXCEPT !.properties =
                       Append(@, objectProperty(s.imported, s.local))]
         IN  reduce(next, Tail(specifiers))

specifiersToProperties(specifiers) ==
    reduce([properties |-> <<>>, namespaceIdentifier |-> NULL], specifiers)

-----------------------------------------------------------------------------
(* Pure-function harness: the helpers applied to drawn arguments *)

Paths ==
    { <<"react">>, <<"react", "-", "dom">>, <<"react", "/", "lib">>,
      <<"umi">>, <<"d", "umi">>, <<".", "/", "local">>,
      <<"/", "abs", "/", "node_modules", "/", "x">>,
      <<"/", "abs", "/", "src">>,
      <<"/", "umi", "/", "packages", "/", "x">>,
      <<"lodash", "/", "fp">> }

LibEntries ==
    { string(<<"react">>),
      [type |-> "RegExp", source |-> <<"react", "/">>, anchored |-> TRUE],
      [type |-> "number", value |-> 42] }

RECURSIVE SeqsUpTo(_, _)
SeqsUpTo(S, n) ==
    IF n = 0 THEN {<<>>}
    ELSE LET shorter == SeqsUpTo(S, n - 1)
         IN  shorter \cup {Append(s, x) : s \in shorter, x \in S}

AliasMaps ==
    { <<>>,
      << <<(<<"react">>), <<"preact">> >> >>,
      << <<(<<"lodash">>), <<"lodash", "-", "es">> >> >> }

WebpackAliasMaps ==
    { <<>>,
      << << <<"react">>, <<"/", "abs", "/", "node_modules", "/", "react", "/", "index", ".", "js">> >> >>,
      << << <<"react">>, <<"/", "abs", "/", "src", "/", "react", ".", "ts">> >> >>,
      << << <<"react">>, <<"/", "abs", "/", "src", "/", "react">> >>,
         << <<"react", "/">>, <<"/", "abs", "/", "node_modules", "/", "react">> >> >>,
      << << <<"lodash">>, <<>> >> >> }

NoArgs == [fn |-> "none"]

InitMatch ==
    /\ opts = NULL /\ program = <<>> /\ callNodes = <<>> /\ ci = 1 /\ body = <<>>
    /\ variableDeclarations = <<>> /\ index = 0 /\ pc = "idle" /\ log = <<>>
    /\ fnArgs \in [fn : {"pending"}, path : Paths, libs : SeqsUpTo(LibEntries, MaxLibs),
                   matchAll : BOOLEAN, alias : AliasMaps,
                   webpackAlias : WebpackAliasMaps]
    /\ fnRet = NULL

CallIsMatchLib ==
    /\ fnArgs.fn = "pending"
    /\ fnArgs' = [fnArgs EXCEPT !.fn = "isMatchLib"]
    /\ fnRet' = isMatchLib(fnArgs.path, fnArgs.libs, fnArgs.matchAll,
                           fnArgs.alias, fnArgs.webpackAlias)
    /\ UNCHANGED passVars

CallGetAlias ==
    /\ fnArgs.fn = "pending"
    /\ fnArgs' = [fnArgs EXCEPT !.fn = "getAlias"]
    /\ fnRet' = getAlias(fnArgs.path, fnArgs.webpackAlias)
    /\ UNCHANGED passVars

CallGetPath ==
    /\ fnArgs.fn = "pending"
    /\ fnArgs' = [fnArgs EXCEPT !.fn = "getPath"]
    /\ fnRet' = getPath(fnArgs.path, fnArgs.alias)
    /\ UNCHANGED passVars

NextMatch == CallIsMatchLib \/ CallGetAlias \/ CallGetPath

SpecMatch == InitMatch /\ [][NextMatch]_vars

-----------------------------------------------------------------------------
(* The plugin run on one file *)

react == <<"react">>

reactLib == <<"react", "/", "lib">>

lodash == <<"lodash">>

local == <<".", "/", "local">>

\* the statements input bodies are drawn from
StatementPool ==
    { importDeclaration(<<importDefaultSpecifier("Foo"), importSpecifier("a", "a"),
                          importSpecifier("c", "b")>>, stringLiteral(react)),
      importDeclaration(<<importNamespaceSpecifier("ns")>>, stringLiteral(lodash)),
      importDeclaration(<<importDefaultSpecifier("Default"),
                          importNamespaceSpecifier("ns")>>, stringLiteral(reactLib)),
      importDeclaration(<<importSpecifier("x", "x")>>, stringLiteral(local)),
      exportAllDeclaration(stringLiteral(react)),
      exportNamedDeclaration(NULL, <<exportSpecifier("a", "a"), exportSpecifier("b", "c")>>,
                             stringLiteral(react)),
      exportNamedDeclaration(NULL, <<exportDefaultSpecifier("v")>>, stringLiteral(reactLib)),
      exportNamedDeclaration(NULL, <<exportSpecifier("a", "a")>>, stringLiteral(local)),
      exportNamedDeclaration(NULL, <<exportSpecifier("a", "a")>>, NULL),
      expressionStatement }

Programs ==
    UNION { { [i \in 1..n |-> Tag(f[i], i, FALSE)] : f \in [1..n -> StatementPool] }
            : n \in 0..MaxStmts }

\* dynamic import() calls and other calls found in the file, in visiting order
CallLists ==
    { <<>>,
      << callExpression(identifier("require"), <<stringLiteral(react)>>),
         callExpression(import, <<identifier("name")>>),
         callExpression(import, <<stringLiteral(react)>>),
         callExpression(import, <<stringLiteral(local)>>) >> }

Policy(libs, matchAll, alias, webpackAlias, exportAllMembers, onTransformDeps) ==
    [libs |-> libs, matchAll |-> matchAll, remoteName |-> <<"mf">>, alias |-> alias,
     webpackAlias |-> webpackAlias, onTransformDeps |-> onTransformDeps,
     exportAllMembers |-> exportAllMembers]

LibsGood ==
    << string(react),
       [type |-> "RegExp", source |-> <<"react", "/">>, anchored |-> TRUE] >>

LibsBad == << string(react), [type |-> "number", value |-> 42] >>

AliasReact == << <<react, <<"preact">> >> >>

MembersReact == << <<react, <<"a", "b">> >> >>

WebpackAliasLocal ==
    << <<react, <<"/", "abs", "/", "src", "/", "react", ".", "ts">> >> >>

Policies ==
    { Policy(LibsGood, FALSE, <<>>, <<>>, e, TRUE) : e \in {<<>>, MembersReact} }
    \cup
    { Policy(LibsGood, FALSE, AliasReact, <<>>, MembersReact, TRUE),
      Policy(LibsBad, FALSE, <<>>, <<>>, MembersReact, TRUE),
      Policy(LibsGood, FALSE, <<>>, <<>>, MembersReact, FALSE),
      Policy(<<>>, FALSE, <<>>, <<>>, <<>>, TRUE),
      Policy(<<>>, TRUE, <<>>, <<>>, <<>>, TRUE) }
    \cup
    { Policy(<<>>, TRUE, a, w, MembersReact, TRUE) :
        a \in {<<>>, AliasReact}, w \in {<<>>, WebpackAliasLocal} }

filename == <<"/", "src", "/", "index", ".", "js">>

Init ==
    /\ opts \in Policies
    /\ program \in Programs
    /\ callNodes \in CallLists
    /\ body = program
    /\ ci = 1
    /\ variableDeclarations = <<>>
    /\ index = Len(program)
    /\ pc = "traverse"
    /\ log = <<>>
    /\ fnArgs = NoArgs
    /\ fnRet = NULL

Match(value) == isMatchLib(value, opts.libs, opts.matchAll, opts.alias, opts.webpackAlias)

\* the string `${opts.remoteName}/${getPath(value, opts.alias || {})}`
RemotePath(value) == opts.remoteName \o <<"/">> \o getPath(value, opts.alias)

\* await import("<remote path>")
RemoteInit(value) ==
    awaitExpression(callExpression(import, <<stringLiteral(RemotePath(value))>>))

\* opts.onTransformDeps?.(arg); at is a history field naming the visited node
Notify(arg, at) ==
    IF opts.onTransformDeps
    THEN Append(log, [f \in DOMAIN arg \cup {"at"} |-> IF f = "at" THEN at ELSE arg[f]])
    ELSE log

Fail ==
    /\ pc' = "failed"
    /\ UNCHANGED <<opts, program, callNodes, ci, body, variableDeclarations, index, log>>

\* variableDeclarations.push in place of unshift
unshift_push(list, nodes) == list \o nodes

unshift(list, nodes) == nodes \o list

\* opts.exportAllMembers[source].map iterated from the last member
membersToProperties_reversed(members) ==
    [k \in 1..Len(members) |->
       objectProperty(identifier(members[Len(members) + 1 - k]),
                      identifier(members[Len(members) + 1 - k]))]

\* opts.exportAllMembers[source].map((m) => t.objectProperty(id(m), id(m)))
membersToProperties(members) ==
    [k \in 1..Len(members) |->
       objectProperty(identifier(members[k]), identifier(members[k]))]

\* body.splice(index) without the delete count: drops the rest of the body
splice1_rest(list, i) == SubSeq(list, 1, i - 1)

\* body.splice(index - 1, 1): drops the neighbour (the last entry for -1)
splice1_neighbour(list, i) ==
    IF i = 1 THEN SubSeq(list, 1, Len(list) - 1)
    ELSE SubSeq(list, 1, i - 2) \o SubSeq(list, i, Len(list))

splice1(list, i) == SubSeq(list, 1, i - 1) \o SubSeq(list, i + 1, Len(list))

IsImportCall(node) ==
    /\ node.callee.type = "Import"
    /\ Len(node.arguments) = 1
    /\ node.arguments[1].type = "StringLiteral"

CallExpressionExit ==
    /\ pc = "traverse"
    /\ ci <= Len(callNodes)
    /\ LET node == callNodes[ci]
       IN  IF ~IsImportCall(node)
           THEN /\ ci' = ci + 1
                /\ UNCHANGED <<callNodes, log, pc>>
           ELSE LET value == node.arguments[1].value
                    isMatch == Match(value)
                IN  IF isMatch.threw
                    THEN /\ pc' = "failed"
                         /\ UNCHANGED <<callNodes, ci, log>>
                    ELSE /\ log' = Notify([source |-> value, file |-> filename,
                                           isMatch |-> isMatch.value],
                                          <<"CallExpression", ci>>)
                         /\ callNodes' =
                              IF isMatch.value
                              THEN [callNodes EXCEPT ![ci].arguments[1] =
                                      stringLiteral(RemotePath(value))]
                              ELSE callNodes
                         /\ ci' = ci + 1
                         /\ pc' = pc
    /\ UNCHANGED <<opts, program, body, variableDeclarations, index, fnVars>>

\* Program.exit runs after every node below the program has been visited
InLoop == pc = "traverse" /\ ci > Len(callNodes) /\ index >= 1

ImportDeclarationStep ==
    /\ InLoop
    /\ LET d == body[index]
       IN  /\ d.type = "ImportDeclaration"
           /\ LET isMatch == Match(d.source.value)
              IN  IF isMatch.threw THEN Fail
                  ELSE /\ log' = Notify([source |-> d.source.value, file |-> filename,
                                         isMatch |-> isMatch.value],
                                        <<"Program", d.origin>>)
                       /\ IF isMatch.value
                          THEN LET sp == specifiersToProperties(d.specifiers)
                                   properties == sp.properties
                                   namespaceIdentifier == sp.namespaceIdentifier
                                   id == objectPattern(properties)
                                   init == RemoteInit(d.source.value)
                                   Decl(i, v) ==
                                     Tag(variableDeclaration("const",
                                           <<variableDeclarator(i, v)>>), d.origin, TRUE)
                               IN  /\ variableDeclarations' =
                                        IF namespaceIdentifier # NULL
                                        THEN unshift(
                                               IF Len(properties) > 0
                                               THEN unshift(variableDeclarations,
                                                      <<Decl(id, namespaceIdentifier)>>)
                                               ELSE variableDeclarations,
                                               <<Decl(namespaceIdentifier, init)>>)
                                        ELSE unshift(variableDeclarations, <<Decl(id, init)>>)
                                   /\ body' = splice1(body, index)
                          ELSE UNCHANGED <<body, variableDeclarations>>
                       /\ index' = index - 1
                       /\ UNCHANGED <<opts, program, callNodes, ci, pc>>
    /\ UNCHANGED fnVars

ExportAllDeclarationStep ==
    /\ InLoop
    /\ LET d == body[index]
       IN  /\ d.type = "ExportAllDeclaration"
           /\ d.source # NULL
           /\ LET isMatch == Match(d.source.value)
                  members == Get(opts.exportAllMembers, d.source.value)
              IN  IF isMatch.threw THEN Fail
                  ELSE /\ log' = Notify([source |-> d.source.value, file |-> filename,
                                         isMatch |-> FALSE,
                                         isExportAllDeclaration |-> TRUE],
                                        <<"Program", d.origin>>)
                       /\ IF isMatch.value /\ members # NULL
                          THEN LET id == identifier("__all_exports")
                                   init == RemoteInit(d.source.value)
                               IN  /\ variableDeclarations' =
                                        unshift(variableDeclarations,
                                          <<Tag(variableDeclaration("const",
                                                  <<variableDeclarator(id, init)>>),
                                                d.origin, TRUE)>>)
                                   /\ body' = [body EXCEPT ![index] =
                                        Tag(exportNamedDeclaration(
                                              variableDeclaration("const",
                                                <<variableDeclarator(
                                                    objectPattern(membersToProperties(members)),
                                                    identifier("__all_exports"))>>),
                                              <<>>, NULL),
                                            d.origin, FALSE)]
                          ELSE UNCHANGED <<body, variableDeclarations>>
                       /\ index' = index - 1
                       /\ UNCHANGED <<opts, program, callNodes, ci, pc>>
    /\ UNCHANGED fnVars

ExportNamedDeclarationStep ==
    /\ InLoop
    /\ LET d == body[index]
       IN  /\ d.type = "ExportNamedDeclaration"
           /\ d.source # NULL
           /\ LET isMatch == Match(d.source.value)
              IN  IF isMatch.threw THEN Fail
                  ELSE /\ log' = Notify([source |-> d.source.value, file |-> filename,
                                         isMatch |-> isMatch.value],
                                        <<"Program", d.origin>>)
                       /\ IF isMatch.value
                          THEN LET properties == specifiersToProperties(d.specifiers).properties
                                   id == objectPattern(properties)
                                   init == RemoteInit(d.source.value)
                               IN  /\ variableDeclarations' =
                                        unshift(variableDeclarations,
                                          <<Tag(variableDeclaration("const",
                                                  <<variableDeclarator(id, init)>>),
                                                d.origin, TRUE)>>)
                                   /\ body' = [body EXCEPT ![index].source = NULL]
                          ELSE UNCHANGED <<body, variableDeclarations>>
                       /\ index' = index - 1
                       /\ UNCHANGED <<opts, program, callNodes, ci, pc>>
    /\ UNCHANGED fnVars

\* a statement none of the three branches applies to
OtherStatementStep ==
    /\ InLoop
    /\ LET d == body[index]
       IN  /\ d.type # "ImportDeclaration"
           /\ ~(d.type = "ExportAllDeclaration" /\ d.source # NULL)
           /\ ~(d.type = "ExportNamedDeclaration" /\ d.source # NULL)
    /\ index' = index - 1
    /\ UNCHANGED <<opts, program, callNodes, ci, body, variableDeclarations, pc, log, fnVars>>

\* path.node.body = [...variableDeclarations, ...path.node.body]
Assemble ==
    /\ pc = "traverse" /\ ci > Len(callNodes) /\ index = 0
    /\ body' = variableDeclarations \o body
    /\ pc' = "done"
    /\ UNCHANGED <<opts, program, callNodes, ci, variableDeclarations, index, log, fnVars>>

Next ==
    \/ CallExpressionExit
    \/ ImportDeclarationStep
    \/ ExportAllDeclarationStep
    \/ ExportNamedDeclarationStep
    \/ OtherStatementStep
    \/ Assemble

Spec == Init /\ [][Next]_vars

-----------------------------------------------------------------------------
(* Properties of the rewritten body *)

\* the entries of seq at the positions in S, in order
Sub(seq, S) ==
    LET F[k \in 0..Len(seq)] ==
          IF k = 0 THEN <<>>
          ELSE IF k \in S THEN Append(F[k - 1], seq[k]) ELSE F[k - 1]
    IN  F[Len(seq)]

HasReference(s) ==
    \/ s.type = "ImportDeclaration"
    \/ s.type \in {"ExportAllDeclaration", "ExportNamedDeclaration"} /\ s.source # NULL

Matches(s) == HasReference(s) /\ Match(s.source.value) = Return(TRUE)

FailsMatch(s) == HasReference(s) /\ Match(s.source.value) = Return(FALSE)

\* declarations generated for input statement i, and what is left of it
GeneratedFor(i) ==
    Sub(body, {k \in 1..Len(body) : body[k].generated /\ body[k].origin = i})

RetainedFor(i) ==
    Sub(body, {k \in 1..Len(body) : ~body[k].generated /\ body[k].origin = i})

Retained == Sub(body, {k \in 1..Len(body) : ~body[k].generated})

RemovedImports ==
    {i \in 1..Len(program) : program[i].type = "ImportDeclaration" /\ Matches(program[i])}

\* the reference with the first alias key that is a prefix of it replaced
AliasSubstituted(source) ==
    LET hits == {i \in 1..Len(opts.alias) : startsWith(source, opts.alias[i][1])}
    IN  IF hits = {} THEN source
        ELSE LET e == opts.alias[Min(hits)]
             IN  e[2] \o SubSeq(source, Len(e[1]) + 1, Len(source))

Load(source) ==
    awaitExpression(callExpression(import,
        <<stringLiteral(opts.remoteName \o <<"/">> \o AliasSubstituted(source))>>))

Const(i, id, init) ==
    Tag(variableDeclaration("const", <<variableDeclarator(id, init)>>), i, TRUE)

\* C1: when the pass is done the body is the generated declarations followed
\* by the retained statements; the declarations are in the order of the
\* statements they were generated for and the retained statements are in
\* their input order.
C1_Ordering ==
    pc = "done" =>
      \A i, j \in 1..Len(body) :
        i < j =>
          /\ ~(~body[i].generated /\ body[j].generated)
          /\ body[i].generated /\ body[j].generated => body[i].origin <= body[j].origin
          /\ ~body[i].generated /\ ~body[j].generated => body[i].origin < body[j].origin

C1_Witness ==
    /\ pc = "done"
    /\ \E i, j, k, l \in 1..Len(body) :
         /\ body[i].generated /\ body[j].generated /\ body[i].origin < body[j].origin
         /\ ~body[k].generated /\ ~body[l].generated /\ body[k].origin < body[l].origin
         /\ body[k].origin < body[j].origin

\* C2: a statement whose reference fails the match test, and a statement
\* without a reference, is in the body exactly once and unchanged, and no
\* declaration is generated for it.
C2_UnmatchedUntouched ==
    \A i \in 1..Len(program) :
      (FailsMatch(program[i]) \/ ~HasReference(program[i])) =>
        /\ Cardinality({k \in 1..Len(body) : body[k] = program[i]}) = 1
        /\ \A k \in 1..Len(body) : body[k].origin = i => body[k] = program[i]
        /\ \A k \in 1..Len(variableDeclarations) : variableDeclarations[k].origin # i

C2_Witness ==
    /\ pc = "done"
    /\ \E i, j, k \in 1..Len(program) :
         /\ i < j
         /\ FailsMatch(program[i])
         /\ program[j].type = "ImportDeclaration" /\ Matches(program[j])
         /\ ~HasReference(program[k])

ImportProperties(specifiers) ==
    LET named == Sub(specifiers, {k \in 1..Len(specifiers) :
                                    specifiers[k].type # "ImportNamespaceSpecifier"})
    IN  [k \in 1..Len(named) |->
           IF named[k].type = "ImportDefaultSpecifier"
           THEN objectProperty(identifier("default"), named[k].local)
           ELSE objectProperty(named[k].imported, named[k].local)]

NamespaceOf(specifiers) ==
    {specifiers[k].local : k \in {n \in 1..Len(specifiers) :
                                    specifiers[n].type = "ImportNamespaceSpecifier"}}

ExpectedImportDeclarations(i) ==
    LET d     == program[i]
        props == ImportProperties(d.specifiers)
        load  == Load(d.source.value)
    IN  IF NamespaceOf(d.specifiers) # {}
        THEN LET ns == CHOOSE n \in NamespaceOf(d.specifiers) : TRUE
             IN  IF Len(props) > 0
                 THEN <<Const(i, ns, load), Const(i, objectPattern(props), ns)>>
                 ELSE <<Const(i, ns, load)>>
        ELSE <<Const(i, objectPattern(props), load)>>

\* C3: a matched import is gone from the retained statements and its
\* declarations are: namespace = load then {properties} = namespace when it
\* has a namespace binding and properties; namespace = load when it has a
\* namespace binding only; {properties} = load otherwise; the properties in
\* specifier order and the load of remoteName/alias-substituted source.
C3_MatchedImport ==
    pc = "done" =>
      \A i \in 1..Len(program) :
        (program[i].type = "ImportDeclaration" /\ Matches(program[i])) =>
          /\ RetainedFor(i) = <<>>
          /\ GeneratedFor(i) = ExpectedImportDeclarations(i)

C3_Witness ==
    /\ pc = "done"
    /\ opts.alias # <<>>
    /\ \E i, j, k \in 1..Len(program) :
         /\ program[i].type = "ImportDeclaration" /\ Matches(program[i])
         /\ Len(GeneratedFor(i)) = 2
         /\ program[j].type = "ImportDeclaration" /\ Matches(program[j])
         /\ Len(ImportProperties(program[j].specifiers)) = 3
         /\ AliasSubstituted(program[j].source.value) # program[j].source.value
         /\ program[k].type = "ImportDeclaration" /\ Matches(program[k])
         /\ NamespaceOf(program[k].specifiers) # {}
         /\ Len(GeneratedFor(k)) = 1

HasMembers(source) == \E k \in 1..Len(opts.exportAllMembers) : opts.exportAllMembers[k][1] = source

MembersOf(source) ==
    opts.exportAllMembers[CHOOSE k \in 1..Len(opts.exportAllMembers) :
                            opts.exportAllMembers[k][1] = source][2]

\* C4: a matched blanket re-export with a member list yields one declaration
\* __all_exports = load and is replaced, at its own place among the retained
\* statements, by export const {members} = __all_exports with the members in
\* the configured order; any other blanket re-export is retained unchanged
\* with no declaration.
C4_ExportAll ==
    pc = "done" =>
      \A i \in 1..Len(program) :
        program[i].type = "ExportAllDeclaration" =>
          LET source == program[i].source.value
          IN  IF Matches(program[i]) /\ HasMembers(source)
              THEN /\ GeneratedFor(i) =
                        <<Const(i, identifier("__all_exports"), Load(source))>>
                   /\ Len(Retained) >= i - Cardinality({r \in RemovedImports : r < i})
                   /\ Retained[i - Cardinality({r \in RemovedImports : r < i})] =
                        Tag(exportNamedDeclaration(
                              variableDeclaration("const",
                                <<variableDeclarator(
                                    objectPattern(
                                      [k \in 1..Len(MembersOf(source)) |->
                                         objectProperty(identifier(MembersOf(source)[k]),
                                                        identifier(MembersOf(source)[k]))]),
                                    identifier("__all_exports"))>>),
                              <<>>, NULL), i, FALSE)
                   /\ Len(RetainedFor(i)) = 1
              ELSE /\ GeneratedFor(i) = <<>>
                   /\ RetainedFor(i) = <<program[i]>>

C4_Witness ==
    /\ pc = "done"
    /\ \E i, j \in 1..Len(program) :
         /\ j < i
         /\ program[i].type = "ExportAllDeclaration" /\ Matches(program[i])
         /\ HasMembers(program[i].source.value)
         /\ Len(GeneratedFor(i)) = 1
         /\ j \in RemovedImports

BoundNames(declarations) ==
    UNION { { declarations[k].declarations[1].id.properties[n].value.name :
                n \in 1..Len(declarations[k].declarations[1].id.properties) }
            : k \in 1..Len(declarations) }

\* C5: a matched named re-export stays in the body with its source cleared
\* and its specifiers as they were, and every local name its specifiers
\* refer to is bound by the declaration generated for it.
C5_NamedReexportBound ==
    pc = "done" =>
      \A i \in 1..Len(program) :
        (program[i].type = "ExportNamedDeclaration" /\ Matches(program[i])) =>
          /\ RetainedFor(i) = <<[program[i] EXCEPT !.source = NULL]>>
          /\ Len(GeneratedFor(i)) = 1
          /\ \A k \in 1..Len(program[i].specifiers) :
               program[i].specifiers[k].type = "ExportSpecifier" =>
                 program[i].specifiers[k].local.name \in BoundNames(GeneratedFor(i))

LogAt(at) == {k \in 1..Len(log) : log[k].at = at}

\* C6: with a callback configured, when the pass is done every statement with
\* a reference has been notified exactly once, with its reference as source
\* and the outcome of the match test as isMatch, and every dynamic import of
\* a literal has been notified exactly once.
C6_NotifiedWithOutcome ==
    (pc = "done" /\ opts.onTransformDeps) =>
      /\ \A i \in 1..Len(program) :
           HasReference(program[i]) =>
             /\ Cardinality(LogAt(<<"Program", i>>)) = 1
             /\ \A k \in LogAt(<<"Program", i>>) :
                  /\ log[k].source = program[i].source.value
                  /\ log[k].isMatch = Match(program[i].source.value).value
      /\ \A j \in 1..Len(callNodes) :
           IsImportCall(callNodes[j]) => Cardinality(LogAt(<<"CallExpression", j>>)) = 1

HasBadLib(libs) == \E k \in 1..Len(libs) : libs[k].type \notin {"string", "RegExp"}

\* C7: in explicit-list mode with a libs entry that is neither a string nor
\* a pattern, no match test returns: a notification, which is made only
\* after a match test has returned, is never made, and the pass has failed.
C7_BadLibFails ==
    (~opts.matchAll /\ HasBadLib(opts.libs) /\ log # <<>>) => pc = "failed"

\* C9 as stated: the output body is as long as the input body less the
\* removed imports.
C9_Original ==
    pc = "done" => Len(body) = Len(program) - Cardinality(RemovedImports)

\* C9 amended: the retained statements number the input statements less the
\* removed imports, the output body is those plus the generated declarations,
\* and every re-export is retained exactly once.
C9_Conservation ==
    pc = "done" =>
      /\ Len(Retained) = Len(program) - Cardinality(RemovedImports)
      /\ Len(body) = Len(program) - Cardinality(RemovedImports)
                       + Cardinality({k \in 1..Len(body) : body[k].generated})
      /\ \A i \in 1..Len(program) :
           program[i].type \in {"ExportAllDeclaration", "ExportNamedDeclaration"} =>
             Len(RetainedFor(i)) = 1

C9_Witness ==
    /\ pc = "done"
    /\ Cardinality(RemovedImports) >= 1
    /\ Cardinality({k \in 1..Len(body) : body[k].generated}) >= 3
    /\ \E i \in 1..Len(program) :
         program[i].type = "ExportNamedDeclaration" /\ Matches(program[i])

-----------------------------------------------------------------------------
(* Properties of the matcher *)

Evaluated(fn) == fnArgs.fn = fn

HasMarker(p) ==
    \/ \E k \in 1..Len(p) : p[k] = "node_modules"
    \/ \E k \in 1..(Len(p) - 3) :
         p[k] = "umi" /\ p[k + 1] = "/" /\ p[k + 2] = "packages" /\ p[k + 3] = "/"

AppliesAsStated(entry, path) ==
    IF extname(entry[2]) \in {<<".", "js">>, <<".", "jsx">>, <<".", "ts">>, <<".", "tsx">>}
    THEN path = entry[1]
    ELSE startsWith(path, IF endsWith(entry[1], <<"/">>) THEN entry[1]
                          ELSE entry[1] \o <<"/">>)

ResolveAsStated(path, aliasMap) ==
    LET hits == {k \in 1..Len(aliasMap) : AppliesAsStated(aliasMap[k], path)}
    IN  IF hits = {} THEN NULL ELSE aliasMap[Min(hits)][2]

\* C10: getAlias returns the replacement of the first entry that applies,
\* an entry with a source-file replacement applying only to a path equal to
\* its key and any other entry to a path under its key; else no resolution.
C10_ResolveExactForFiles ==
    Evaluated("getAlias") => fnRet = ResolveAsStated(fnArgs.path, fnArgs.webpackAlias)

====
